---- MODULE Spec2Model ----
(***************************************************************************)
(* CivicTrack backend: the issue collection and the HTTP handlers that     *)
(* create, update, flag, delete and list issues (Server.initializeRoutes), *)
(* with the Issue / User mongoose schemas and the geo utilities they use.  *)
(*                                                                         *)
(* Numbers: coordinates are fixed-point micro-degrees (40.7128 deg is      *)
(* 40712800); distances are whole metres, as geolib's getDistance returns  *)
(* them, so the handler's distance in km is calculateDistance / 1000.       *)
(***************************************************************************)
EXTENDS Integers, Sequences, FiniteSets, TLC

(***************************************************************************)
(* Bounds of the model                                                     *)
(***************************************************************************)
\* issue ids allocated by POST /issues: 1 .. MaxIssues
MaxIssues == 1
\* flag requests answered 200 per issue that the model follows
MaxFlagCalls == 2

(***************************************************************************)
(* Program constants                                                       *)
(***************************************************************************)
\* Math.min(user.preferredRadiusKm || 5, 5): the system-wide cap, in km
SystemMaxRadiusKm == 5
\* user.preferredRadiusKm || 5 and the schema default
DefaultRadiusKm == 5
\* config.app.autoHideFlagThreshold
autoHideFlagThreshold == 3
\* one degree, and the schema's latitude / longitude limits, in micro-degrees
Deg == 1000 * 1000
MaxLatitude == 90 * Deg
MaxLongitude == 180 * Deg
\* geolib: metres of arc per 100000 micro-degrees (earth radius 6378137 m)
MetresPer100kMicroDeg == 11132

NONE == "none"

validStatuses == {"reported", "in_review", "in_progress", "resolved", "closed", "rejected"}
validPriorities == {"low", "medium", "high", "critical"}

(***************************************************************************)
(* Geo utilities                                                           *)
(***************************************************************************)
Abs(x) == IF x < 0 THEN -x ELSE x

\* the arc taken as the signed difference of the latitudes
ArcMicroDegSigned(p1, p2) ==
  LET dLon == Abs(p1.longitude - p2.longitude) % (360 * Deg)
  IN  IF dLon = 0
        THEN p1.latitude - p2.latitude
        ELSE 180 * Deg - Abs(p1.latitude + p2.latitude)

\* Great-circle arc in micro-degrees between two points whose longitudes
\* differ by a multiple of 180 degrees (both lie on one great circle through
\* the poles): acos(sin a sin b + cos a cos b cos(dLon)) is |a - b| on the
\* same meridian and 180 - |a + b| on opposite meridians.
ArcMicroDeg(p1, p2) ==
  LET dLon == Abs(p1.longitude - p2.longitude) % (360 * Deg)
  IN  IF dLon = 0
        THEN Abs(p1.latitude - p2.latitude)
        ELSE 180 * Deg - Abs(p1.latitude + p2.latitude)

\* geolib getDistance: the arc times the earth radius, rounded to the metre
getDistance(p1, p2) ==
  LET arc == ArcMicroDeg(p1, p2)
      hi  == arc \div 100000
      lo  == arc % 100000
  IN  hi * MetresPer100kMicroDeg + (lo * MetresPer100kMicroDeg + 50000) \div 100000

\* calculateDistance: getDistance / 1000 km, kept here in metres
calculateDistance(point1, point2) == getDistance(point1, point2)

\* isWithinRadius(center, point, radiusKm)
isWithinRadius(center, point, radiusKm) ==
  calculateDistance(center, point) <= radiusKm * 1000

\* isValidCoordinates(latitude, longitude)
isValidCoordinates(latitude, longitude) ==
  /\ latitude >= -MaxLatitude
  /\ latitude <= MaxLatitude
  /\ longitude >= -MaxLongitude
  /\ longitude <= MaxLongitude

(***************************************************************************)
(* Users                                                                   *)
(***************************************************************************)
\* the reporters' registered point and the payload points, all on the
\* meridian of 180 degrees or opposite to it
HomeLat == 40712800
Home == [latitude |-> HomeLat, longitude |-> 180 * Deg, address |-> "addr"]

UserIds == {"u1", "u2", "u3"}

\* a user document stored without defaultLocation (IUser.defaultLocation is
\* optional and POST /issues tests for it), and one saved through the model
\* with a longitude of 0, which the schema's validators accept (the seeding
\* script saves users this way; POST /auth/register refuses a 0 coordinate)
NoLocationUser == "u4"
ZeroMeridianUser == "u5"
Reporters == UserIds \cup {NoLocationUser, ZeroMeridianUser}

\* The users collection: u1 registered through POST /auth/register (role
\* user, schema default radius), u2 through POST /auth/create-admin (radius
\* 50), u3 a user whose preferredRadiusKm is below the cap, u4 and u5 as
\* above.
SeededUsers ==
  [u \in Reporters |->
     [role |-> IF u = "u2" THEN "admin" ELSE "user",
      hasLocation |-> u # NoLocationUser,
      defaultLocation |->
        CASE u = NoLocationUser -> [latitude |-> 0, longitude |-> 0, address |-> ""]
          [] u = ZeroMeridianUser -> [latitude |-> HomeLat, longitude |-> 0, address |-> "addr"]
          [] OTHER -> Home,
      preferredRadiusKm |-> CASE u = "u2" -> 50 [] u = "u3" -> 2 [] OTHER -> 5]]

(***************************************************************************)
(* Issue documents                                                         *)
(***************************************************************************)
UNSET == "unset"
SET == "set"

\* issueSchema validators run by save(): lengths, enums, coordinate ranges
TitleMinLength == 10
TitleMaxLength == 200
DescriptionMinLength == 20
DescriptionMaxLength == 2000
categories == {"infrastructure", "environment", "safety", "utilities",
               "transportation", "housing", "health", "education", "other"}

ValidateIssue(doc) ==
  /\ doc.titleLen >= TitleMinLength
  /\ doc.titleLen <= TitleMaxLength
  /\ doc.descLen >= DescriptionMinLength
  /\ doc.descLen <= DescriptionMaxLength
  /\ doc.category \in categories
  /\ doc.priority \in validPriorities
  /\ doc.status \in validStatuses
  /\ isValidCoordinates(doc.location.latitude, doc.location.longitude)
  /\ doc.location.address # ""
  /\ doc.reportedBy # ""

\* the validators that fail on save(): mongoose collects the failing
\* validator of every path into one ValidationError
SchemaViolations(doc) ==
  {r \in {"title.required", "title.minlength", "title.maxlength",
          "description.required", "description.minlength", "description.maxlength",
          "category.enum", "latitude.range", "longitude.range"} :
     CASE r = "title.required" -> doc.titleLen = 0
       [] r = "title.minlength" -> doc.titleLen > 0 /\ doc.titleLen < TitleMinLength
       [] r = "title.maxlength" -> doc.titleLen > TitleMaxLength
       [] r = "description.required" -> doc.descLen = 0
       [] r = "description.minlength" -> doc.descLen > 0 /\ doc.descLen < DescriptionMinLength
       [] r = "description.maxlength" -> doc.descLen > DescriptionMaxLength
       [] r = "category.enum" -> doc.category \notin categories
       [] r = "latitude.range" -> doc.location.latitude < -MaxLatitude \/ doc.location.latitude > MaxLatitude
       [] OTHER -> doc.location.longitude < -MaxLongitude \/ doc.location.longitude > MaxLongitude}

\* issueSchema.pre('save'): modified is the set of paths isModified() reports
PreSave(doc, modified) ==
  LET d1 == IF "status" \in modified /\ doc.status = "resolved"
               /\ doc.actualResolutionDate = UNSET
              THEN [doc EXCEPT !.actualResolutionDate = SET] ELSE doc
      d2 == IF "status" \in modified /\ d1.status # "resolved"
               /\ d1.actualResolutionDate # UNSET
              THEN [d1 EXCEPT !.actualResolutionDate = UNSET] ELSE d1
      d3 == IF "isFlagged" \in modified /\ d2.isFlagged /\ d2.flaggedAt = UNSET
              THEN [d2 EXCEPT !.flaggedAt = SET] ELSE d2
      d4 == IF "isFlagged" \in modified /\ ~d3.isFlagged
              THEN [d3 EXCEPT !.flaggedAt = UNSET, !.flaggedReason = "",
                              !.flaggedBy = NONE]
              ELSE d3
  IN  d4

\* new Issue({title, description, category, priority: priority || 'medium',
\* location, reportedBy, ...}): every other path takes its schema default
NewIssue(payload) ==
  [titleLen |-> payload.titleLen,
   descLen |-> payload.descLen,
   category |-> payload.category,
   priority |-> IF payload.priority = "" THEN "medium" ELSE payload.priority,
   status |-> "reported",
   location |-> [latitude |-> payload.location.latitude,
                 longitude |-> payload.location.longitude,
                 address |-> payload.location.address],
   reportedBy |-> payload.reportedBy,
   isFlagged |-> FALSE,
   flaggedReason |-> "",
   flaggedBy |-> NONE,
   flaggedAt |-> UNSET,
   actualResolutionDate |-> UNSET,
   reviewedAt |-> UNSET,
   upvotes |-> << >>,
   downvotes |-> << >>]

\* virtuals upvoteCount, downvoteCount, netVotes
upvoteCount(doc) == Len(doc.upvotes)
downvoteCount(doc) == Len(doc.downvotes)
netVotes(doc) == upvoteCount(doc) - downvoteCount(doc)

\* array.some(id => id.equals(userObjectId)) and
\* array.filter(id => !id.equals(userObjectId))
Some(array, userId) == \E k \in DOMAIN array : array[k] = userId
Without(array, userId) == SelectSeq(array, LAMBDA id : id # userId)

\* issueSchema.methods.hasUserVoted
hasUserVoted(doc, userId) ==
  IF Some(doc.upvotes, userId) THEN "upvote"
  ELSE IF Some(doc.downvotes, userId) THEN "downvote"
  ELSE "null"

\* a toggleVote that withdraws a vote the user repeats
toggleVoteWithdrawing(doc, userId, voteType) ==
  IF hasUserVoted(doc, userId) = voteType
    THEN [doc EXCEPT !.upvotes = Without(doc.upvotes, userId),
                     !.downvotes = Without(doc.downvotes, userId)]
    ELSE [doc EXCEPT !.upvotes = IF voteType = "upvote"
                                   THEN Append(Without(doc.upvotes, userId), userId)
                                   ELSE Without(doc.upvotes, userId),
                     !.downvotes = IF voteType = "upvote"
                                     THEN Without(doc.downvotes, userId)
                                     ELSE Append(Without(doc.downvotes, userId), userId)]

\* a toggleVote that removes the user only from the array it pushes to
toggleVoteKeepingOther(doc, userId, voteType) ==
  [doc EXCEPT !.upvotes = IF voteType = "upvote"
                            THEN Append(Without(doc.upvotes, userId), userId)
                            ELSE doc.upvotes,
              !.downvotes = IF voteType = "upvote"
                              THEN doc.downvotes
                              ELSE Append(Without(doc.downvotes, userId), userId)]

\* issueSchema.methods.toggleVote, before its save(): the user is removed from
\* both arrays and pushed onto the one of the vote type
toggleVote(doc, userId, voteType) ==
  [doc EXCEPT !.upvotes = IF voteType = "upvote"
                            THEN Append(Without(doc.upvotes, userId), userId)
                            ELSE Without(doc.upvotes, userId),
              !.downvotes = IF voteType = "upvote"
                              THEN Without(doc.downvotes, userId)
                              ELSE Append(Without(doc.downvotes, userId), userId)]

(***************************************************************************)
(* Responses                                                               *)
(***************************************************************************)
NoGeo == [distance |-> 0, maxAllowed |-> 0,
          userLocation |-> [latitude |-> 0, longitude |-> 0, address |-> ""],
          issueLocation |-> [latitude |-> 0, longitude |-> 0, address |-> ""]]

\* The last request and its answer: the operation, the HTTP status, the kind of
\* message, the issue id and the user id or token of the request, the status
\* the issue had when an update found it, the ids of a listed page, and the
\* data of a geofence refusal.
Response(op, code, msg, id, who) ==
  [op |-> op, code |-> code, msg |-> msg, id |-> id, who |-> who,
   was |-> "", data |-> << >>, geo |-> NoGeo]

(***************************************************************************)
(* POST /api/v1/issues                                                     *)
(***************************************************************************)
\* Math.min(user.preferredRadiusKm || 5, 5)
Min(a, b) == IF a < b THEN a ELSE b

maxAllowedRadius(user) ==
  Min(IF user.preferredRadiusKm = 0 THEN DefaultRadiusKm ELSE user.preferredRadiusKm,
      SystemMaxRadiusKm)

\* the geofence test with the user's own radius, the 5 km cap forgotten
OutsideGeofenceUncapped(user, location) ==
  calculateDistance(user.defaultLocation, location) > user.preferredRadiusKm * 1000

\* the geofence test of the handler: distance > maxAllowedRadius (km)
OutsideGeofence(user, location) ==
  calculateDistance(user.defaultLocation, location) > maxAllowedRadius(user) * 1000

\* the checks with the geofence test moved ahead of the test of the user's
\* default location
CreateIssueRefusalDistanceFirst(us, payload) ==
  IF \/ payload.titleLen = 0 \/ payload.descLen = 0 \/ payload.category = ""
     \/ ~payload.location.given \/ payload.reportedBy = ""
    THEN "missing_fields"
  ELSE IF \/ payload.location.latitude = 0 \/ payload.location.longitude = 0
          \/ payload.location.address = ""
    THEN "missing_location"
  ELSE IF payload.reportedBy \notin DOMAIN us
    THEN "user_not_found"
  ELSE IF OutsideGeofence(us[payload.reportedBy], payload.location)
    THEN "geofence"
  ELSE IF \/ ~us[payload.reportedBy].hasLocation
          \/ us[payload.reportedBy].defaultLocation.latitude = 0
          \/ us[payload.reportedBy].defaultLocation.longitude = 0
    THEN "no_default_location"
  ELSE IF ~ValidateIssue(NewIssue(payload))
    THEN "validation"
  ELSE ""

\* The handler's answer before anything is saved: "" when every check passes
CreateIssueRefusal(us, payload) ==
  IF \/ payload.titleLen = 0 \/ payload.descLen = 0 \/ payload.category = ""
     \/ ~payload.location.given \/ payload.reportedBy = ""
    THEN "missing_fields"
  ELSE IF \/ payload.location.latitude = 0 \/ payload.location.longitude = 0
          \/ payload.location.address = ""
    THEN "missing_location"
  ELSE IF payload.reportedBy \notin DOMAIN us
    THEN "user_not_found"
  ELSE IF \/ ~us[payload.reportedBy].hasLocation
          \/ us[payload.reportedBy].defaultLocation.latitude = 0
          \/ us[payload.reportedBy].defaultLocation.longitude = 0
    THEN "no_default_location"
  ELSE IF OutsideGeofence(us[payload.reportedBy], payload.location)
    THEN "geofence"
  ELSE IF ~ValidateIssue(NewIssue(payload))
    THEN "validation"
  ELSE ""

\* data of the 400 answer of the geofence test; distance is rounded to two
\* decimals of a km, that is to 10 m
GeofenceData(user, location) ==
  [distance |-> (calculateDistance(user.defaultLocation, location) + 5) \div 10,
   maxAllowed |-> maxAllowedRadius(user),
   userLocation |-> user.defaultLocation,
   issueLocation |-> [latitude |-> location.latitude,
                      longitude |-> location.longitude,
                      address |-> location.address]]

CreateIssueResponse(us, payload, id) ==
  LET refusal == CreateIssueRefusal(us, payload)
  IN  CASE refusal = "" ->
             Response("create", 201, "created", id, payload.reportedBy)
        [] refusal = "geofence" ->
             [Response("create", 400, refusal, 0, payload.reportedBy)
                EXCEPT !.geo = GeofenceData(us[payload.reportedBy], payload.location)]
        [] refusal = "user_not_found" ->
             Response("create", 404, refusal, 0, payload.reportedBy)
        [] refusal = "validation" ->
             Response("create", 500, refusal, 0, payload.reportedBy)
        [] OTHER ->
             Response("create", 400, refusal, 0, payload.reportedBy)

\* the rules an answer's message names: the fixed list of the five required
\* fields, the fixed list of the three location fields, or the message of the
\* ValidationError save() threw (error.message); the other refusals name none
ReportedRules(us, payload) ==
  LET refusal == CreateIssueRefusal(us, payload)
  IN  CASE refusal = "missing_fields" ->
             {"title.required", "description.required", "category.required",
              "location.required", "reportedBy.required"}
        [] refusal = "missing_location" ->
             {"latitude.required", "longitude.required", "address.required"}
        [] refusal = "validation" -> SchemaViolations(NewIssue(payload))
        [] OTHER -> {}

(***************************************************************************)
(* Middleware                                                              *)
(***************************************************************************)
\* Authorization header of a request: no token, a token jwt.verify rejects,
\* or a valid token carrying the role of its user
Tokens == {"", "bad", "user", "admin"}

\* the middleware letting a request without a token through
AuthRefusalTokenOptional(token) ==
  IF token = "" THEN 0
  ELSE IF token = "bad" THEN 403
  ELSE IF token # "admin" THEN 403
  ELSE 0

\* authenticateToken without requireAdmin: any valid token may pass
AuthRefusalAnyRole(token) ==
  IF token = "" THEN 401
  ELSE IF token = "bad" THEN 403
  ELSE 0

\* authenticateToken then requireAdmin: 0 when the handler may run
AuthRefusal(token) ==
  IF token = "" THEN 401
  ELSE IF token = "bad" THEN 403
  ELSE IF token # "admin" THEN 403
  ELSE 0

(***************************************************************************)
(* PUT /api/v1/issues/:id                                                  *)
(***************************************************************************)
\* an update that stamps the resolution date on entering resolved and never
\* clears it
UpdatedDocStamping(doc, body) ==
  LET d1 == IF body.status # ""
              THEN [doc EXCEPT !.status = body.status,
                               !.actualResolutionDate =
                                  IF body.status = "resolved" THEN SET ELSE @]
              ELSE doc
  IN  IF body.priority # "" THEN [d1 EXCEPT !.priority = body.priority] ELSE d1

\* an update that unflags the issue when it rejects it
UpdatedDocUnhiding(doc, body) ==
  LET d1 == IF body.status # ""
              THEN [doc EXCEPT !.status = body.status,
                               !.reviewedAt =
                                  IF body.status \in {"in_progress", "in_review"}
                                    THEN SET ELSE @,
                               !.isFlagged =
                                  IF body.status = "rejected" THEN FALSE ELSE @]
              ELSE doc
  IN  IF body.priority # "" THEN [d1 EXCEPT !.priority = body.priority] ELSE d1

\* Issue.findByIdAndUpdate(id, updateData): a $set of the given paths; the
\* document middleware (pre('save')) is not run by a query update
UpdatedDoc(doc, body) ==
  LET d1 == IF body.status # ""
              THEN [doc EXCEPT !.status = body.status,
                               !.reviewedAt =
                                  IF body.status \in {"in_progress", "in_review"}
                                    THEN SET ELSE @]
              ELSE doc
      d2 == IF body.priority # "" THEN [d1 EXCEPT !.priority = body.priority] ELSE d1
  IN  d2

(***************************************************************************)
(* POST /api/v1/issues/:id/flag                                            *)
(***************************************************************************)
\* a flag that leaves flaggedAt to the pre('save') hook, which a query update
\* does not run
FlaggedDocNoDate(doc, reason, reportedBy) ==
  [doc EXCEPT !.isFlagged = TRUE,
              !.flaggedReason = reason,
              !.flaggedBy = reportedBy]

\* a flag that also raises the priority of the issue
FlaggedDocEscalating(doc, reason, reportedBy) ==
  [doc EXCEPT !.isFlagged = TRUE,
              !.flaggedReason = reason,
              !.flaggedBy = reportedBy,
              !.flaggedAt = SET,
              !.priority = "critical"]

\* a flag written as a whole document built from the schema defaults of the
\* other paths, the status among them
FlaggedDocStale(doc, reason, reportedBy) ==
  [doc EXCEPT !.isFlagged = TRUE,
              !.flaggedReason = reason,
              !.flaggedBy = reportedBy,
              !.flaggedAt = SET,
              !.status = "reported"]

\* Issue.findByIdAndUpdate(id, {isFlagged, flaggedReason, flaggedBy, flaggedAt})
FlaggedDoc(doc, reason, reportedBy) ==
  [doc EXCEPT !.isFlagged = TRUE,
              !.flaggedReason = reason,
              !.flaggedBy = reportedBy,
              !.flaggedAt = SET]

(***************************************************************************)
(* GET /api/v1/issues                                                      *)
(***************************************************************************)
Given(v) == v # "" /\ v # "all" /\ v # "undefined"

\* the query without the isFlagged condition of the public listing
MatchesFlaggedToo(doc, q) ==
  /\ q.userId # "" => doc.reportedBy = q.userId
  /\ Given(q.category) => doc.category = q.category
  /\ Given(q.status) => doc.status = q.status
  /\ Given(q.priority) => doc.priority = q.priority

\* the mongo query the handler builds from req.query
Matches(doc, q) ==
  /\ IF q.userId # "" THEN doc.reportedBy = q.userId ELSE ~doc.isFlagged
  /\ Given(q.category) => doc.category = q.category
  /\ Given(q.status) => doc.status = q.status
  /\ Given(q.priority) => doc.priority = q.priority

\* sort({createdAt: -1}): ids are allocated in creation order
RECURSIVE SortDesc(_)
SortDesc(ids) ==
  IF ids = {} THEN << >>
  ELSE LET m == CHOOSE x \in ids : \A y \in ids : y <= x
       IN  <<m>> \o SortDesc(ids \ {m})

\* .skip((page - 1) * limit).limit(limit)
Page(seq, page, limit) ==
  LET skip == (page - 1) * limit
  IN  SubSeq(seq, skip + 1, Min(Len(seq), skip + limit))

ListIssues(store, q) ==
  Page(SortDesc({i \in DOMAIN store : Matches(store[i], q)}), q.page, q.limit)

(***************************************************************************)
(* State                                                                   *)
(***************************************************************************)
VARIABLES
  users,          \* the users collection: id -> user document
  issues,         \* the issues collection: id -> issue document
  nextId,         \* the id the next created issue gets
  statusHistory,  \* the statushistories collection (StatusHistory documents)
  flagLog,        \* per issue id, the flaggers of the flag requests answered 200
  resp            \* the last request's answer

vars == <<users, issues, nextId, statusHistory, flagLog, resp>>

IssueIds == 1 .. MaxIssues

Init ==
  /\ users = SeededUsers
  /\ issues = << >>
  /\ nextId = 1
  /\ statusHistory = {}
  /\ flagLog = << >>
  /\ resp = Response("none", 0, "", 0, "")

(***************************************************************************)
(* Request inputs                                                          *)
(***************************************************************************)
Point(lat, lon) == [given |-> TRUE, latitude |-> lat, longitude |-> lon, address |-> "addr"]

\* the payload points: 17962, 44912 and 44921 micro-degrees north of Home
\* (arcs that round to 2000 m, 5000 m and 5001 m), the point of Home's
\* latitude on the meridian of 0 degrees, and no location at all
PayloadLocations ==
  { Point(HomeLat + 17962, 180 * Deg),
    Point(HomeLat + 44912, 180 * Deg),
    Point(HomeLat + 44921, 180 * Deg),
    Point(HomeLat, 0),
    [given |-> FALSE, latitude |-> 0, longitude |-> 0, address |-> ""] }

\* req.body of POST /issues; status and isFlagged are fields a client may
\* send although the handler does not destructure them
BasePayloads ==
  [titleLen : {5, 12}, descLen : {25}, category : {"other"}, priority : {""},
   location : PayloadLocations, reportedBy : Reporters \cup {"", "u9"},
   status : {""}, isFlagged : {""}]

CreatePayloads ==
  BasePayloads
    \cup {[p EXCEPT !.status = "resolved", !.isFlagged = "true"] : p \in BasePayloads}

\* bodies of POST /issues by u1 whose title and description lengths lie at
\* and around the limits, with or without a category, located 2000 m north
\* of the reporter, at latitude 95, or at longitude 540 on the reporter's
\* meridian
ValidationPayloads ==
  [titleLen : {0, 5, 9, 10, 200, 201, 500, 501},
   descLen : {0, 19, 20, 2000, 2001},
   category : {"", "other"}, priority : {""},
   location : {Point(HomeLat + 17962, 180 * Deg), Point(95 * Deg, 180 * Deg),
               Point(HomeLat + 17962, 540 * Deg)},
   reportedBy : {"u1"}, status : {""}, isFlagged : {""}]

\* the body FlaggedReportsAdmin sends for 'approve': { isFlagged: false }
ApproveBody == [status |-> "", priority |-> "", isFlagged |-> "false"]

\* req.body of PUT /issues/:id
UpdateBodies ==
  [status : validStatuses \cup {"", "bogus"}, priority : {"", "high"}, isFlagged : {""}]
    \cup {ApproveBody}

\* req.query of GET /issues; latitude, longitude and radius (km, 0 when not
\* given) are destructured by the handler and not used in its query
Queries ==
  [userId : {"", "u1", "u3"}, category : {"", "other"}, status : {"", "resolved"},
   priority : {"all"}, page : {1, 2}, limit : {10},
   latitude : {HomeLat}, longitude : {180 * Deg}, radius : {0, 1}]

(***************************************************************************)
(* Actions                                                                 *)
(***************************************************************************)
\* a create that saves the document before it answers, refused or not
CreateIssueSavingFirst(payload) ==
  /\ nextId <= MaxIssues
  /\ resp' = CreateIssueResponse(users, payload, nextId)
  /\ issues' = [i \in DOMAIN issues \cup {nextId} |->
                  IF i = nextId THEN PreSave(NewIssue(payload), {}) ELSE issues[i]]
  /\ flagLog' = [i \in DOMAIN flagLog \cup {nextId} |->
                  IF i = nextId THEN << >> ELSE flagLog[i]]
  /\ nextId' = nextId + 1
  /\ UNCHANGED <<users, statusHistory>>

CreateIssue(payload) ==
  /\ resp' = CreateIssueResponse(users, payload, nextId)
  /\ IF CreateIssueRefusal(users, payload) = ""
       THEN /\ nextId <= MaxIssues
            /\ issues' = [i \in DOMAIN issues \cup {nextId} |->
                            IF i = nextId THEN PreSave(NewIssue(payload), {})
                                          ELSE issues[i]]
            /\ flagLog' = [i \in DOMAIN flagLog \cup {nextId} |->
                            IF i = nextId THEN << >> ELSE flagLog[i]]
            /\ nextId' = nextId + 1
       ELSE UNCHANGED <<issues, flagLog, nextId>>
  /\ UNCHANGED <<users, statusHistory>>

UpdateIssue(token, id, body) ==
  /\ IF AuthRefusal(token) # 0
       THEN /\ resp' = Response("update", AuthRefusal(token), "auth", id, token)
            /\ UNCHANGED issues
     ELSE IF body.status # "" /\ body.status \notin validStatuses
       THEN /\ resp' = Response("update", 400, "invalid_status", id, token)
            /\ UNCHANGED issues
     ELSE IF id \notin DOMAIN issues
       THEN /\ resp' = Response("update", 404, "not_found", id, token)
            /\ UNCHANGED issues
     ELSE /\ resp' = [Response("update", 200, "updated", id, token)
                        EXCEPT !.was = issues[id].status]
          /\ issues' = [issues EXCEPT ![id] = UpdatedDoc(issues[id], body)]
  /\ UNCHANGED <<users, nextId, statusHistory, flagLog>>

FlagIssue(id, reason, reportedBy) ==
  /\ IF reason = "" \/ reportedBy = ""
       THEN /\ resp' = Response("flag", 400, "missing_fields", id, reportedBy)
            /\ UNCHANGED <<issues, flagLog>>
     ELSE IF id \notin DOMAIN issues
       THEN /\ resp' = Response("flag", 404, "not_found", id, reportedBy)
            /\ UNCHANGED <<issues, flagLog>>
     ELSE /\ Len(flagLog[id]) < MaxFlagCalls
          /\ resp' = Response("flag", 200, "flagged", id, reportedBy)
          /\ issues' = [issues EXCEPT ![id] = FlaggedDoc(issues[id], reason, reportedBy)]
          /\ flagLog' = [flagLog EXCEPT ![id] = Append(@, reportedBy)]
  /\ UNCHANGED <<users, nextId, statusHistory>>

DeleteIssue(token, id) ==
  /\ IF AuthRefusal(token) # 0
       THEN /\ resp' = Response("delete", AuthRefusal(token), "auth", id, token)
            /\ UNCHANGED <<issues, flagLog>>
     ELSE IF id \notin DOMAIN issues
       THEN /\ resp' = Response("delete", 404, "not_found", id, token)
            /\ UNCHANGED <<issues, flagLog>>
     ELSE /\ resp' = Response("delete", 200, "deleted", id, token)
          /\ issues' = [i \in DOMAIN issues \ {id} |-> issues[i]]
          /\ flagLog' = [i \in DOMAIN flagLog \ {id} |-> flagLog[i]]
  /\ UNCHANGED <<users, nextId, statusHistory>>

GetIssues(q) ==
  /\ resp' = [Response("list", 200, "ok", 0, q.userId) EXCEPT !.data = ListIssues(issues, q)]
  /\ UNCHANGED <<users, issues, nextId, statusHistory, flagLog>>

Next ==
  \/ \E payload \in CreatePayloads : CreateIssue(payload)
  \/ \E token \in Tokens, id \in IssueIds, body \in UpdateBodies : UpdateIssue(token, id, body)
  \/ \E id \in IssueIds, reason \in {"", "spam"}, f \in UserIds \cup {""} : FlagIssue(id, reason, f)
  \/ \E token \in Tokens, id \in IssueIds : DeleteIssue(token, id)
  \/ \E q \in Queries : GetIssues(q)

Spec == Init /\ [][Next]_vars

(***************************************************************************)
(* Voting on a stored issue: issue.toggleVote(userId, voteType)            *)
(***************************************************************************)
voteTypes == {"upvote", "downvote"}

\* the body of a create that stored the issue the votes are cast on
StoredPayload ==
  [titleLen |-> 12, descLen |-> 25, category |-> "other", priority |-> "",
   location |-> Point(HomeLat + 17962, 180 * Deg), reportedBy |-> "u1",
   status |-> "", isFlagged |-> ""]

\* the state after one successful create
InitVotes ==
  /\ users = SeededUsers
  /\ issues = [i \in {1} |-> PreSave(NewIssue(StoredPayload), {})]
  /\ nextId = 2
  /\ statusHistory = {}
  /\ flagLog = [i \in {1} |-> << >>]
  /\ resp = CreateIssueResponse(SeededUsers, StoredPayload, 1)

\* toggleVote and its save(); resp keeps the call (user, vote type) and, in
\* was, what hasUserVoted returned for the user before it
ToggleVote(id, userId, voteType) ==
  /\ id \in DOMAIN issues
  /\ issues' = [issues EXCEPT ![id] =
                  PreSave(toggleVote(issues[id], userId, voteType),
                          {"upvotes", "downvotes"})]
  /\ resp' = [Response("vote", 0, voteType, id, userId)
               EXCEPT !.was = hasUserVoted(issues[id], userId)]
  /\ UNCHANGED <<users, nextId, statusHistory, flagLog>>

NextVotes ==
  \E id \in IssueIds, userId \in UserIds, voteType \in voteTypes :
    ToggleVote(id, userId, voteType)

SpecVotes == InitVotes /\ [][NextVotes]_vars

(***************************************************************************)
(* Vocabulary of the claims                                                *)
(***************************************************************************)
\* effectiveRadius = min(preferredRadiusKm, systemMaxRadiusKm), in metres
EffectiveRadiusM(user) == Min(user.preferredRadiusKm, SystemMaxRadiusKm) * 1000

\* the flaggers an issue document records
RecordedFlaggers(doc) == IF doc.flaggedBy = NONE THEN {} ELSE {doc.flaggedBy}

Range(seq) == {seq[k] : k \in DOMAIN seq}

\* the transition graph: each edge is <<from, to>>; every update is made by
\* an admin, so the admin-only edges any -> closed and resolved -> in_progress
\* are among them
PermittedEdges ==
  { <<"reported", "in_review">>, <<"reported", "rejected">>,
    <<"in_review", "in_progress">>, <<"in_review", "rejected">>,
    <<"in_progress", "resolved">>, <<"in_progress", "rejected">>,
    <<"resolved", "closed">>, <<"resolved", "in_progress">> }
  \cup {<<s, "closed">> : s \in validStatuses \ {"closed"}}

\* the status events recorded for issue i, and the latest of them
HistoryOf(i) == {h \in statusHistory : h.issueId = i}
IsLatest(h) == \A g \in HistoryOf(h.issueId) : g.createdAt <= h.createdAt

\* a payload that is valid by the data model: every required field present,
\* the location a GeoPoint in range with an address
ValidPayload(payload) ==
  /\ payload.titleLen >= TitleMinLength
  /\ payload.descLen >= DescriptionMinLength
  /\ payload.category \in categories
  /\ payload.location.given
  /\ payload.location.address # ""
  /\ isValidCoordinates(payload.location.latitude, payload.location.longitude)

(***************************************************************************)
(* Claims                                                                  *)
(***************************************************************************)

\* C1: every stored issue lies within min(preferredRadiusKm, 5 km) of the
\* registered location of the user who reported it (users never change
\* their location or radius, so this is the distance at creation).
C1_GeofenceAtCreation ==
  \A i \in DOMAIN issues :
    /\ issues[i].reportedBy \in DOMAIN users
    /\ calculateDistance(users[issues[i].reportedBy].defaultLocation, issues[i].location)
         <= EffectiveRadiusM(users[issues[i].reportedBy])

\* C1 witness: a create was just answered 201 for a reporter whose preferred
\* radius exceeds the cap, and the stored issue is exactly 5000 m from home.
C1_Witness ==
  /\ resp.op = "create" /\ resp.code = 201
  /\ resp.id \in DOMAIN issues
  /\ users[issues[resp.id].reportedBy].preferredRadiusKm > SystemMaxRadiusKm
  /\ calculateDistance(Home, issues[resp.id].location) = SystemMaxRadiusKm * 1000

\* C2: every step that changes the status of an issue follows a permitted
\* edge of the transition graph.
C2_OnlyPermittedEdges ==
  [][\A i \in DOMAIN issues \cap DOMAIN issues' :
       issues'[i].status # issues[i].status
         => <<issues[i].status, issues'[i].status>> \in PermittedEdges]_vars

\* C3: every stored issue has a status history whose latest entry's new
\* status is the issue's current status.
C3_HistoryTracksStatus ==
  \A i \in DOMAIN issues :
    \E h \in HistoryOf(i) : IsLatest(h) /\ h.newStatus = issues[i].status

\* C5: when the flaggers whose flag requests succeeded on an issue are
\* distinct, the issue records all of them.
C5_AllFlaggersRecorded ==
  \A i \in DOMAIN issues :
    Cardinality(Range(flagLog[i])) = Len(flagLog[i])
      => RecordedFlaggers(issues[i]) = Range(flagLog[i])

\* C6: an issue is hidden from the public listing exactly when at least
\* autoHideFlagThreshold distinct flaggers have flagged it (nothing clears
\* flags, so "since the last clearFlags" is "since creation").
C6_HiddenExactlyFromThreshold ==
  \A i \in DOMAIN issues :
    issues[i].isFlagged <=> Cardinality(Range(flagLog[i])) >= autoHideFlagThreshold

\* C7: no flagger's flag request on an issue succeeds twice.
C7_DuplicateFlagRefused ==
  \A i \in DOMAIN issues :
    \A j, k \in DOMAIN flagLog[i] : j # k => flagLog[i][j] # flagLog[i][k]

\* C8: for a registered reporter with a location and a valid payload,
\* createIssue answers with the geofence refusal exactly when the distance
\* exceeds min(preferredRadiusKm, 5 km).
C8_GeofenceRefusalExact ==
  \A payload \in CreatePayloads :
    (/\ ValidPayload(payload)
     /\ payload.reportedBy \in DOMAIN users
     /\ users[payload.reportedBy].hasLocation)
    => (CreateIssueResponse(users, payload, nextId).msg = "geofence"
          <=> calculateDistance(users[payload.reportedBy].defaultLocation, payload.location)
                > EffectiveRadiusM(users[payload.reportedBy]))

C10_ResolvedAtOnlyWhileResolved ==
  \A i \in DOMAIN issues :
    issues[i].actualResolutionDate # UNSET => issues[i].status = "resolved"

\* C10 witness: an update just moved an issue out of resolved, and the issue
\* has no resolution date.
C10_Witness ==
  /\ resp.op = "update" /\ resp.code = 200 /\ resp.was = "resolved"
  /\ resp.id \in DOMAIN issues
  /\ issues[resp.id].status # "resolved"
  /\ issues[resp.id].actualResolutionDate = UNSET

\* C11: right after a successful update that moves an issue into resolved from
\* another status, the issue's resolution date is set.
C11_ResolvedAtSetOnEnteringResolved ==
  (/\ resp.op = "update" /\ resp.code = 200
   /\ resp.id \in DOMAIN issues
   /\ resp.was # "resolved"
   /\ issues[resp.id].status = "resolved")
  => issues[resp.id].actualResolutionDate # UNSET

\* C12: an admin's PUT with the body { isFlagged: false } (the clearing of
\* flags the admin page requests), answered 200, leaves the issue unflagged
\* with no recorded flagger, and its status as it was.
C12_ClearFlagsResets ==
  [][\A id \in DOMAIN issues :
       UpdateIssue("admin", id, ApproveBody)
         => /\ ~issues'[id].isFlagged
            /\ RecordedFlaggers(issues'[id]) = {}
            /\ issues'[id].status = issues[id].status]_vars

\* C13: the record a successful create has just stored has status reported,
\* is not flagged and records no flagger, and has a status history of exactly
\* one event, whose new status is reported.
C13_NewRecordInitialState ==
  (resp.op = "create" /\ resp.code = 201)
  => /\ resp.id \in DOMAIN issues
     /\ issues[resp.id].status = "reported"
     /\ ~issues[resp.id].isFlagged
     /\ RecordedFlaggers(issues[resp.id]) = {}
     /\ Cardinality(HistoryOf(resp.id)) = 1
     /\ \A h \in HistoryOf(resp.id) : h.newStatus = "reported"

\* C14: a create that is refused, for whatever reason, leaves the stored
\* issues exactly as they were, and every stored issue is a complete record
\* that passes the schema's validators.
C14_CreateAllOrNothing ==
  /\ [][(resp'.op = "create" /\ resp'.code # 201) => issues' = issues]_vars
  /\ [](\A i \in DOMAIN issues : ValidateIssue(issues[i]))

\* C14 witness: a create has just been refused by the schema's validators
\* (answer 500) while an issue is stored, and that issue is a complete record.
C14_Witness ==
  /\ resp.op = "create" /\ resp.code = 500 /\ resp.msg = "validation"
  /\ DOMAIN issues # {}
  /\ \A i \in DOMAIN issues : ValidateIssue(issues[i])

C16_SamePointAccepted ==
  \A payload \in CreatePayloads :
    (/\ ValidPayload(payload)
     /\ payload.reportedBy \in DOMAIN users
     /\ users[payload.reportedBy].hasLocation
     /\ isValidCoordinates(users[payload.reportedBy].defaultLocation.latitude,
                           users[payload.reportedBy].defaultLocation.longitude)
     /\ payload.location.latitude = users[payload.reportedBy].defaultLocation.latitude
     /\ payload.location.longitude = users[payload.reportedBy].defaultLocation.longitude)
    => CreateIssueRefusal(users, payload) = ""

\* C17: the flag write and the status write on one issue are each one atomic
\* update of the document, taken in either order: a flag answered 200 marks
\* the issue and records its flagger and leaves status, priority and the
\* review and resolution dates as they were; an admin's status update
\* answered 200 sets the status and leaves the flag fields as they were; and
\* neither write touches another issue.
C17_FlagAndStatusWritesKeepEachOther ==
  [][\A i \in DOMAIN issues \cap DOMAIN issues' :
       /\ (resp'.op = "flag" /\ resp'.code = 200 /\ resp'.id = i)
            => /\ FlagIssue(i, "spam", resp'.who)
               /\ issues'[i].isFlagged
               /\ issues'[i].flaggedBy = resp'.who
               /\ issues'[i].status = issues[i].status
               /\ issues'[i].priority = issues[i].priority
               /\ issues'[i].reviewedAt = issues[i].reviewedAt
               /\ issues'[i].actualResolutionDate = issues[i].actualResolutionDate
       /\ (resp'.op = "update" /\ resp'.code = 200 /\ resp'.id = i)
            => /\ \A body \in UpdateBodies :
                    (body.status \in validStatuses /\ UpdateIssue("admin", i, body))
                      => issues'[i].status = body.status
               /\ issues'[i].isFlagged = issues[i].isFlagged
               /\ issues'[i].flaggedBy = issues[i].flaggedBy
               /\ issues'[i].flaggedReason = issues[i].flaggedReason
               /\ issues'[i].flaggedAt = issues[i].flaggedAt
       /\ (resp'.op \in {"flag", "update"} /\ resp'.id # i)
            => issues'[i] = issues[i]]_vars

\* C17 witness: a status update has just changed the status of an issue that
\* was flagged before it, and the flag and its flagger are still recorded.
C17_Witness ==
  /\ resp.op = "update" /\ resp.code = 200
  /\ resp.id \in DOMAIN issues
  /\ issues[resp.id].status # resp.was
  /\ issues[resp.id].isFlagged
  /\ flagLog[resp.id] # << >>
  /\ issues[resp.id].flaggedBy = flagLog[resp.id][Len(flagLog[resp.id])]

\* C18: the status history only grows, and every step that changes the
\* status of an issue appends exactly one event, from the previous status to
\* the new one.
C18_HistoryAppendOnly ==
  [][/\ statusHistory \subseteq statusHistory'
     /\ \A i \in DOMAIN issues \cap DOMAIN issues' :
          issues'[i].status # issues[i].status
            => \E h \in statusHistory' \ statusHistory :
                 /\ statusHistory' = statusHistory \cup {h}
                 /\ h.issueId = i
                 /\ h.previousStatus = issues[i].status
                 /\ h.newStatus = issues'[i].status]_vars

\* C19: a step that closes an issue or reopens a resolved one is an update
\* requested with an admin's token, and an update requested with any other
\* token is refused (401 or 403) and leaves every issue as it was.
C19_CloseAndReopenAdminOnly ==
  [][/\ \A i \in DOMAIN issues \cap DOMAIN issues' :
          (/\ issues'[i].status # issues[i].status
           /\ \/ issues'[i].status = "closed"
              \/ issues[i].status = "resolved" /\ issues'[i].status = "in_progress")
          => resp'.op = "update" /\ resp'.who = "admin" /\ resp'.code = 200
     /\ (resp'.op = "update" /\ resp'.who # "admin")
          => issues' = issues /\ resp'.code \in {401, 403}]_vars

\* C19 witness: an update requested with a user's token on a resolved issue
\* has just been refused with 403, and the issue is still resolved.
C19_Witness ==
  /\ resp.op = "update" /\ resp.who = "user" /\ resp.code = 403
  /\ resp.id \in DOMAIN issues
  /\ issues[resp.id].status = "resolved"

\* C20: a step that moves an issue to rejected leaves its flag fields as
\* they were, and no step on a stored issue unflags it.
C20_RejectKeepsHidden ==
  [][\A i \in DOMAIN issues \cap DOMAIN issues' :
       /\ (issues'[i].status = "rejected" /\ issues[i].status # "rejected")
            => /\ issues'[i].isFlagged = issues[i].isFlagged
               /\ issues'[i].flaggedBy = issues[i].flaggedBy
               /\ issues'[i].flaggedReason = issues[i].flaggedReason
               /\ issues'[i].flaggedAt = issues[i].flaggedAt
       /\ issues[i].isFlagged => issues'[i].isFlagged]_vars

\* C20 witness: an update has just moved a flagged issue to rejected, and the
\* issue is still flagged.
C20_Witness ==
  /\ resp.op = "update" /\ resp.code = 200 /\ resp.was # "rejected"
  /\ resp.id \in DOMAIN issues
  /\ issues[resp.id].status = "rejected"
  /\ issues[resp.id].isFlagged

\* the rules of the data model a payload violates: a required field that is
\* missing, a title or description shorter than its minimum
ViolatedRules(payload) ==
  {r \in {"title.required", "title.minlength", "description.required",
          "description.minlength", "category.required"} :
     CASE r = "title.required" -> payload.titleLen = 0
       [] r = "title.minlength" -> payload.titleLen > 0 /\ payload.titleLen < TitleMinLength
       [] r = "description.required" -> payload.descLen = 0
       [] r = "description.minlength" ->
            payload.descLen > 0 /\ payload.descLen < DescriptionMinLength
       [] OTHER -> payload.category = ""}

\* C21: when a create is refused for the payload's fields, the answer names
\* every rule the payload violates.
C21_AllViolationsReported ==
  \A payload \in ValidationPayloads :
    CreateIssueRefusal(users, payload) \in {"missing_fields", "missing_location", "validation"}
      => ViolatedRules(payload) \subseteq ReportedRules(users, payload)

\* C22: for a reporter within the geofence and a payload whose other fields
\* are valid, the create passes exactly when the title has 10 to 500
\* characters and the description 20 to 2000.
C22_LengthLimits ==
  \A payload \in ValidationPayloads :
    (/\ payload.category \in categories
     /\ isValidCoordinates(payload.location.latitude, payload.location.longitude))
    => (CreateIssueRefusal(users, payload) = ""
          <=> /\ payload.titleLen >= 10 /\ payload.titleLen <= 500
              /\ payload.descLen >= 20 /\ payload.descLen <= 2000)

\* C23: a create whose location has a latitude outside [-90, 90] or a
\* longitude outside [-180, 180] is refused by a check that precedes the
\* distance computation: it is not stored, not answered with the geofence
\* refusal, and not left to the validators that run at save().
C23_OutOfRangeRefusedBeforeDistance ==
  \A payload \in ValidationPayloads :
    ~isValidCoordinates(payload.location.latitude, payload.location.longitude)
      => CreateIssueRefusal(users, payload) \notin {"", "geofence", "validation"}

\* C24: a listing requested with a center and a radius contains only issues
\* within that radius of the center.
C24_ListedWithinRadius ==
  \A q \in Queries :
    q.radius # 0
      => \A k \in DOMAIN ListIssues(issues, q) :
           isWithinRadius([latitude |-> q.latitude, longitude |-> q.longitude],
                          issues[ListIssues(issues, q)[k]].location, q.radius)

\* the points the handlers measure between: the users' registered points,
\* the points of the payloads and the locations of the stored issues
MeasuredPoints ==
  {users[u].defaultLocation : u \in {v \in DOMAIN users : users[v].hasLocation}}
    \cup {[latitude |-> l.latitude, longitude |-> l.longitude, address |-> l.address] :
            l \in {m \in PayloadLocations : m.given}}
    \cup {issues[i].location : i \in DOMAIN issues}

C26_UpdateAndDeleteAdminOnly ==
  [][/\ (resp'.op \in {"update", "delete"} /\ resp'.who = "")
          => resp'.code = 401 /\ issues' = issues
     /\ (resp'.op \in {"update", "delete"} /\ resp'.who \in {"bad", "user"})
          => resp'.code = 403 /\ issues' = issues
     /\ \A i \in DOMAIN issues :
          (\/ i \notin DOMAIN issues'
           \/ issues'[i].status # issues[i].status
           \/ issues'[i].priority # issues[i].priority)
          => resp'.op \in {"update", "delete"} /\ resp'.who = "admin"]_vars

\* C26 witness: a delete requested without a token on a stored issue has
\* just been answered 401, and the issue is still stored.
C26_Witness ==
  /\ resp.op = "delete" /\ resp.who = "" /\ resp.code = 401
  /\ resp.id \in DOMAIN issues

\* C28: a stored issue is flagged exactly when its flagger, flag reason and
\* flag date are all set, and an issue that is not flagged has none of them.
C28_FlagMetadataConsistent ==
  \A i \in DOMAIN issues :
    IF issues[i].isFlagged
      THEN /\ issues[i].flaggedBy # NONE
           /\ issues[i].flaggedReason # ""
           /\ issues[i].flaggedAt # UNSET
      ELSE /\ issues[i].flaggedBy = NONE
           /\ issues[i].flaggedReason = ""
           /\ issues[i].flaggedAt = UNSET

\* C28 witness: a flag has just been answered 200, and the issue is flagged
\* with the request's flagger and reason and a flag date.
C28_Witness ==
  /\ resp.op = "flag" /\ resp.code = 200
  /\ resp.id \in DOMAIN issues
  /\ issues[resp.id].isFlagged
  /\ issues[resp.id].flaggedBy = resp.who
  /\ issues[resp.id].flaggedReason = "spam"
  /\ issues[resp.id].flaggedAt = SET

\* C29: a flag request, answered 200 or refused, removes no issue and leaves
\* the status, priority, title, description, location and reporter of every
\* stored issue as they were.
C29_FlagChangesFlagDataOnly ==
  [][resp'.op = "flag"
       => /\ DOMAIN issues' = DOMAIN issues
          /\ \A i \in DOMAIN issues :
               /\ issues'[i].status = issues[i].status
               /\ issues'[i].priority = issues[i].priority
               /\ issues'[i].titleLen = issues[i].titleLen
               /\ issues'[i].descLen = issues[i].descLen
               /\ issues'[i].location = issues[i].location
               /\ issues'[i].reportedBy = issues[i].reportedBy]_vars

\* C29 witness: a flag has just been answered 200 on an issue that an admin
\* had resolved and set to high priority, and the issue is flagged, resolved
\* and of high priority.
C29_Witness ==
  /\ resp.op = "flag" /\ resp.code = 200
  /\ resp.id \in DOMAIN issues
  /\ issues[resp.id].isFlagged
  /\ issues[resp.id].status = "resolved"
  /\ issues[resp.id].priority = "high"

\* the number of places of an array that hold the user
Occurrences(array, userId) == Cardinality({k \in DOMAIN array : array[k] = userId})

\* C27: on an issue that starts without votes, after any sequence of
\* toggleVote calls every user occurs at most once across upvotes and
\* downvotes, and hasUserVoted is null for a user who never voted and
\* otherwise the type of the user's latest call: null for everyone at the
\* start, and each call sets it to the call's type for the caller and leaves
\* it as it was for everyone else.
C27_VotesDisjointAndLatest ==
  /\ \A i \in DOMAIN issues : \A u \in UserIds : hasUserVoted(issues[i], u) = "null"
  /\ [](\A i \in DOMAIN issues : \A u \in UserIds :
           Occurrences(issues[i].upvotes, u) + Occurrences(issues[i].downvotes, u) <= 1)
  /\ [][\A i \in DOMAIN issues \cap DOMAIN issues' :
          (resp'.op = "vote" /\ resp'.id = i)
            => /\ hasUserVoted(issues'[i], resp'.who) = resp'.msg
               /\ \A u \in UserIds \ {resp'.who} :
                    hasUserVoted(issues'[i], u) = hasUserVoted(issues[i], u)]_vars

\* C27 witness: a user who had upvoted has just voted down while another
\* user's upvote stands: the user is in downvotes only, the other still in
\* upvotes.
C27_Witness ==
  /\ resp.op = "vote" /\ resp.was = "upvote" /\ resp.msg = "downvote"
  /\ resp.id \in DOMAIN issues
  /\ hasUserVoted(issues[resp.id], resp.who) = "downvote"
  /\ ~Some(issues[resp.id].upvotes, resp.who)
  /\ upvoteCount(issues[resp.id]) >= 1

\* C30: a toggleVote(u, t) that follows a toggleVote(u, t) leaves both arrays
\* as the first call left them, and so the three counts; and any call by a
\* user who already holds a vote of that type keeps the membership of both
\* arrays and the three counts, with the user still recorded once.
C30_RepeatedVoteKeepsVote ==
  /\ [](\A i \in DOMAIN issues : \A u \in UserIds : \A t \in voteTypes :
           toggleVote(toggleVote(issues[i], u, t), u, t) = toggleVote(issues[i], u, t))
  /\ [][\A i \in DOMAIN issues \cap DOMAIN issues' :
          (resp'.op = "vote" /\ resp'.id = i /\ resp'.was = resp'.msg)
            => /\ Range(issues'[i].upvotes) = Range(issues[i].upvotes)
               /\ Range(issues'[i].downvotes) = Range(issues[i].downvotes)
               /\ upvoteCount(issues'[i]) = upvoteCount(issues[i])
               /\ downvoteCount(issues'[i]) = downvoteCount(issues[i])
               /\ netVotes(issues'[i]) = netVotes(issues[i])
               /\ hasUserVoted(issues'[i], resp'.who) = resp'.msg]_vars

\* C30 witness: a user who already held an upvote has just upvoted again,
\* next to another user's vote, and is still recorded once, as an upvoter.
C30_Witness ==
  /\ resp.op = "vote" /\ resp.was = "upvote" /\ resp.msg = "upvote"
  /\ resp.id \in DOMAIN issues
  /\ Occurrences(issues[resp.id].upvotes, resp.who) = 1
  /\ Occurrences(issues[resp.id].downvotes, resp.who) = 0
  /\ upvoteCount(issues[resp.id]) + downvoteCount(issues[resp.id]) >= 2

====
